---- MODULE Spec2Model ----
(***************************************************************************)
(* Model of the travel concierge: the chat handler of app.py, the agent    *)
(* loop built in travel_agent.py (AgentExecutor with its defaults) and the *)
(* five tools of travel_agent.py.                                          *)
(*                                                                         *)
(* Strings that the code parses are sequences of tokens; a token is a      *)
(* record [k, d]: k = "date" is a 'YYYY-MM-DD' text of day number d,       *)
(* k = "datetime" is an ISO text with a time part of day d, k = "sep" is   *)
(* the separator ' to ' and k = "junk" is any other text.                  *)
(***************************************************************************)
EXTENDS Integers, Sequences, FiniteSets, TLC

VARIABLES messages,      \* st.session_state.messages
          pc,            \* "idle": waiting for chat input; "running": inside agent_executor.invoke
          input,         \* the "input" passed to agent_executor.invoke
          chat_history,  \* the "chat_history" passed to agent_executor.invoke
          scratch,       \* agent_scratchpad: the (request, result) pairs of the running turn
          iterations,    \* AgentExecutor's iteration counter of the running turn
          turn,          \* number of chat inputs handled so far
          runs,          \* number of agent_executor.invoke calls so far
          outcome,       \* how the last invoke ended
          tokenFile,     \* content of token.json
          cal,           \* record of the last create_calendar_event invocation
          today,         \* datetime.date.today(), as a day number
          probeCall,     \* ToolSpec: the tool call under test
          probeResults   \* ToolSpec: the results of its successive invocations

vars == <<messages, pc, input, chat_history, scratch, iterations, turn, runs,
          outcome, tokenFile, cal, today, probeCall, probeResults>>

chatVars == <<messages, pc, input, chat_history, scratch, iterations, turn,
              runs, outcome, cal>>

(***************************************************************************)
(* Bounds                                                                  *)
(***************************************************************************)
MaxLen == 3        \* longest travel_dates text, in tokens
MaxDay == 1        \* how many times the date may change
MaxTurns == 2      \* chat inputs per session
MaxVaried == 1     \* loop steps in which the oracle may ask for anything
MaxProbes == 2     \* invocations of the tool call under test

(***************************************************************************)
(* Program constants                                                       *)
(***************************************************************************)
DefaultDays == 28
MaxIterations == 15

Greeting == "How can I help you plan your next trip?"
StoppedMsg == "Agent stopped due to iteration limit or time limit."
InvalidToolMsg == "is not a valid tool"

(***************************************************************************)
(* Texts                                                                   *)
(***************************************************************************)
Tok(k, d) == [k |-> k, d |-> d]

IsoDays == {28, 40}

Tokens == {Tok("date", d) : d \in IsoDays}
            \cup {Tok("datetime", 40), Tok("junk", 0), Tok("sep", 0)}

RECURSIVE TextsOfLen(_)
TextsOfLen(n) ==
    IF n = 0 THEN { <<>> }
    ELSE { <<t>> \o s : t \in Tokens, s \in TextsOfLen(n - 1) }

Texts == UNION { TextsOfLen(n) : n \in 0..MaxLen }

None == [some |-> FALSE, str |-> <<>>]
Some(s) == [some |-> TRUE, str |-> s]

\* str.split(' to ')
RECURSIVE split(_)
split(s) ==
    IF s = <<>> THEN << <<>> >>
    ELSE LET rest == split(Tail(s))
         IN  IF Head(s).k = "sep"
             THEN << <<>> >> \o rest
             ELSE << <<Head(s)>> \o Head(rest) >> \o Tail(rest)

\* datetime.datetime.fromisoformat: a day, or ValueError
fromisoformat(seg) ==
    IF Len(seg) = 1 /\ seg[1].k \in {"date", "datetime"}
    THEN [ok |-> TRUE, day |-> seg[1].d]
    ELSE [ok |-> FALSE, day |-> 0]

\* .strftime("%Y-%m-%d")
strftime(day) == Tok("date", day)

(***************************************************************************)
(* The tools.  env is what a tool can read besides its arguments: the      *)
(* current date and the stored files.                                      *)
(***************************************************************************)
Env(d, f) == [today |-> d, file |-> f]

\* the try block of search_flights: the unpacking of the split and the parse
\* of the start part; ok = FALSE is the ValueError the except clause catches
parse_travel_dates(str) ==
    LET parts == split(str)
    IN  IF Len(parts) # 2 THEN [ok |-> FALSE, day |-> 0]
        ELSE fromisoformat(parts[1])

flight_offers(destination, start_date) ==
    << [id |-> "FL123", departure |-> "New York (JFK)", arrival |-> destination,
        price |-> 450, departure_time |-> [date |-> start_date, time |-> "08:00:00"]],
       [id |-> "FL456", departure |-> "New York (JFK)", arrival |-> destination,
        price |-> 550, departure_time |-> [date |-> start_date, time |-> "11:00:00"]] >>

search_flights_always_today(env, destination, travel_dates) ==
    flight_offers(destination, strftime(env.today + DefaultDays))

search_flights(env, destination, travel_dates) ==
    LET default == strftime(env.today + DefaultDays)
        parsed == parse_travel_dates(travel_dates.str)
        start_date == IF travel_dates.some /\ travel_dates.str # <<>>
                      THEN IF parsed.ok THEN strftime(parsed.day) ELSE default
                      ELSE default
    IN  flight_offers(destination, start_date)

book_flight(env, flight_id) ==
    [status |-> "success", confirmation_id |-> "CONF-" \o flight_id \o "-BKD"]

Google_Hotels(env, destination, travel_dates) ==
    << [id |-> "HOT789", name |-> "Grand Plaza Hotel", price_per_night |-> 250],
       [id |-> "HOT101", name |-> "City Center Inn", price_per_night |-> 180] >>

book_hotel(env, hotel_id) ==
    [status |-> "success", confirmation_id |-> "CONF-" \o hotel_id \o "-BKD"]

Call(t, dest, td, id) == [tool |-> t, destination |-> dest, travel_dates |-> td, id |-> id]

NoCall == Call("", "", None, "")

\* tool.run on a registered tool other than create_calendar_event
Apply(env, call) ==
    CASE call.tool = "search_flights" -> search_flights(env, call.destination, call.travel_dates)
      [] call.tool = "book_flight"    -> book_flight(env, call.id)
      [] call.tool = "Google_Hotels"  -> Google_Hotels(env, call.destination, call.travel_dates)
      [] call.tool = "book_hotel"     -> book_hotel(env, call.id)

(***************************************************************************)
(* token.json and the credential read from it                              *)
(***************************************************************************)
File(st, exp, rt, tk) == [state |-> st, expired |-> exp, refresh_token |-> rt, token |-> tk]

NoFile == File("absent", FALSE, FALSE, FALSE)     \* os.path.exists is False
Corrupt == File("corrupt", FALSE, FALSE, FALSE)   \* from_authorized_user_file raises
Creds == { File("ok", e, r, TRUE) : e \in BOOLEAN, r \in BOOLEAN }

StoredFiles == {NoFile, Corrupt} \cup Creds

\* Credentials.valid
valid(creds) == creds.token /\ ~creds.expired

\* the credential after creds.refresh(Request())
refreshed(creds) == File("ok", FALSE, TRUE, TRUE)

\* the credential flow.run_local_server returns
consented(rt) == File("ok", FALSE, rt, TRUE)

needs_credential_always(file) == TRUE

\* which branch of 'if not creds or not creds.valid' the code takes
needs_credential(file) == file.state = "absent" \/ ~valid(file)

takes_refresh(file) == file.state = "ok" /\ file.expired /\ file.refresh_token

\* the external calls create_calendar_event makes when none of them fails
calendar_path(file) ==
    (IF file.state = "absent" THEN <<>> ELSE <<"load">>)
    \o (IF file.state = "corrupt" THEN <<>>
        ELSE (IF needs_credential(file)
              THEN (IF takes_refresh(file) THEN <<"refresh">> ELSE <<"consent">>)
                   \o <<"open", "write">>
              ELSE <<>>)
             \o <<"build", "insert">>)

IndexOf(seq, x) == IF \E i \in 1..Len(seq) : seq[i] = x
                   THEN CHOOSE i \in 1..Len(seq) : seq[i] = x
                   ELSE 0

Count(seq, x) == Cardinality({ i \in 1..Len(seq) : seq[i] = x })

\* the steps at which an invocation on this file can fail
FailPoints(file) ==
    IF file.state = "corrupt" THEN {"load"}
    ELSE {"none"} \cup ({ calendar_path(file)[i] : i \in 1..Len(calendar_path(file)) } \ {"load"})

\* create_calendar_event on the stored file, failing at step failAt
\* (failAt = "none": no step fails); rt: whether consent yields a refresh token
create_calendar_event(file, failAt, rt) ==
    LET path == calendar_path(file)
        trace == IF failAt = "none" THEN path ELSE SubSeq(path, 1, IndexOf(path, failAt))
        creds == IF takes_refresh(file) THEN refreshed(file) ELSE consented(rt)
        wrote == IndexOf(trace, "write") > 0 /\ failAt # "write"
        opened == IndexOf(trace, "open") > 0 /\ failAt # "open"
    IN  [stored  |-> file,
         trace   |-> trace,
         written |-> IF wrote THEN creds ELSE NoFile,
         file    |-> IF wrote THEN creds ELSE IF opened THEN Corrupt ELSE file,
         outcome |-> IF failAt = "none" THEN "returned_id"
                     ELSE IF failAt \in {"build", "insert"} THEN "returned_error"
                     ELSE "raised"]

NoCal == [stored |-> NoFile, trace |-> <<>>, written |-> NoFile, file |-> NoFile, outcome |-> "none"]

(***************************************************************************)
(* The session transcript and the agent loop.                              *)
(*                                                                         *)
(* agent_executor is AgentExecutor(agent, tools, verbose=True): every      *)
(* other parameter has the library's default.  The loop runs at most       *)
(* MaxIterations iterations and then returns StoppedMsg; a request for a   *)
(* name outside tools yields an error observation; arguments the tool's    *)
(* schema rejects, an exception of a tool and a failure of the oracle call *)
(* are not handled and leave invoke as exceptions.                         *)
(***************************************************************************)
UserTexts == {"book the cheaper one"}
AnswerTexts == {"Here is your summary."}

\* a message object; id is its identity (its position when it was created)
Message(id, role, content) == [id |-> id, role |-> role, content |-> content]
HumanMessage(id, content) == Message(id, "user", content)
AIMessage(id, content) == Message(id, "assistant", content)

tools == {"search_flights", "book_flight", "Google_Hotels", "book_hotel", "create_calendar_event"}

UnknownTools == {"get_weather"}

\* the requests of the pure tools the oracle makes in a session
ChatCalls ==
    { Call("search_flights", "London", td, "") :
          td \in {None, Some(<<Tok("date", 40), Tok("sep", 0), Tok("date", 40)>>)} }
    \cup { Call("book_flight", "", None, "FL123"),
           Call("Google_Hotels", "London", None, ""),
           Call("book_hotel", "", None, "HOT101") }

CalendarCall == Call("create_calendar_event", "", None, "")

Step(t, req, kind, result) == [turn |-> t, request |-> req, kind |-> kind, result |-> result]

snapshot_including_last(msgs) == msgs

\* st.session_state.messages[:-1]
snapshot_excluding_last(msgs) == SubSeq(msgs, 1, Len(msgs) - 1)

output_with_steps(text, steps) ==
    IF steps = <<>> THEN text ELSE "steps: " \o steps[Len(steps)].request.tool

\* response['output'] of agent_executor.invoke: the final text only
agent_output(text, steps) == text

\* what the oracle may ask for at this step: anything in the first MaxVaried
\* steps of a turn, afterwards only the previous request again
MayRequest(call) ==
    \/ Len(scratch) < MaxVaried
    \/ /\ Len(scratch) >= MaxVaried
       /\ Len(scratch) > 0
       /\ call = scratch[Len(scratch)].request
       /\ call.tool # "create_calendar_event"

\* invoke returns: the handler appends the assistant message
Return(text, how) ==
    /\ messages' = Append(messages, AIMessage(Len(messages) + 1, text))
    /\ pc' = "idle"
    /\ outcome' = how
    /\ scratch' = <<>>
    /\ iterations' = 0
    /\ input' = ""
    /\ chat_history' = <<>>

\* an exception leaves invoke: the handler is abandoned
Raise(how) ==
    /\ pc' = "idle"
    /\ outcome' = how
    /\ scratch' = <<>>
    /\ iterations' = 0
    /\ input' = ""
    /\ chat_history' = <<>>
    /\ UNCHANGED messages

\* one loop iteration ends with an observation appended to the scratchpad
Observe(call, kind, result) ==
    /\ scratch' = Append(scratch, Step(turn, call, kind, result))
    /\ iterations' = iterations + 1
    /\ UNCHANGED <<messages, pc, input, chat_history, outcome>>

ChatInput ==
    /\ pc = "idle"
    /\ turn < MaxTurns
    /\ \E prompt \in UserTexts :
         /\ messages' = Append(messages, HumanMessage(Len(messages) + 1, prompt))
         /\ input' = prompt
    /\ chat_history' = snapshot_excluding_last(messages')
    /\ pc' = "running"
    /\ scratch' = <<>>
    /\ iterations' = 0
    /\ turn' = turn + 1
    /\ runs' = runs + 1
    /\ outcome' = "running"
    /\ UNCHANGED <<tokenFile, cal, today, probeCall, probeResults>>

OracleFinalAnswer ==
    /\ pc = "running"
    /\ iterations < MaxIterations
    /\ \E text \in AnswerTexts : Return(agent_output(text, scratch), "final")
    /\ UNCHANGED <<turn, runs, tokenFile, cal, today, probeCall, probeResults>>

IterationCap ==
    /\ pc = "running"
    /\ iterations >= MaxIterations
    /\ Return(agent_output(StoppedMsg, scratch), "stopped")
    /\ UNCHANGED <<turn, runs, tokenFile, cal, today, probeCall, probeResults>>

OracleRaises ==
    /\ pc = "running"
    /\ iterations < MaxIterations
    /\ Raise("oracle_raised")
    /\ UNCHANGED <<turn, runs, tokenFile, cal, today, probeCall, probeResults>>

UnknownTool ==
    /\ pc = "running"
    /\ iterations < MaxIterations
    /\ \E name \in UnknownTools :
         LET call == Call(name, "", None, "")
         IN  /\ MayRequest(call)
             /\ name \notin tools
             /\ Observe(call, "error", InvalidToolMsg)
    /\ UNCHANGED <<turn, runs, tokenFile, cal, today, probeCall, probeResults>>

InvalidArgs ==
    /\ pc = "running"
    /\ iterations < MaxIterations
    /\ Raise("validation_raised")
    /\ UNCHANGED <<turn, runs, tokenFile, cal, today, probeCall, probeResults>>

CallTool ==
    /\ pc = "running"
    /\ iterations < MaxIterations
    /\ \E call \in ChatCalls :
         /\ MayRequest(call)
         /\ call.tool \in tools
         /\ Observe(call, "result", Apply(Env(today, tokenFile), call))
    /\ UNCHANGED <<turn, runs, tokenFile, cal, today, probeCall, probeResults>>

CallCalendar ==
    /\ pc = "running"
    /\ iterations < MaxIterations
    /\ MayRequest(CalendarCall)
    /\ \E failAt \in FailPoints(tokenFile), rt \in BOOLEAN :
         LET r == create_calendar_event(tokenFile, failAt, rt)
         IN  /\ cal' = r
             /\ tokenFile' = r.file
             /\ IF r.outcome = "raised"
                THEN Raise("tool_raised")
                ELSE Observe(CalendarCall, "result", r.outcome)
    /\ UNCHANGED <<turn, runs, today, probeCall, probeResults>>

\* the environment is observed to change between turns and in the first
\* MaxVaried steps of a turn
EnvMayChange == pc = "idle" \/ Len(scratch) < MaxVaried

\* the date changes
AdvanceDay ==
    /\ EnvMayChange
    /\ today < MaxDay
    /\ today' = today + 1
    /\ UNCHANGED <<chatVars, tokenFile, probeCall, probeResults>>

\* the stored credential passes its expiry
ExpireToken ==
    /\ EnvMayChange
    /\ tokenFile.state = "ok"
    /\ ~tokenFile.expired
    /\ tokenFile' = [tokenFile EXCEPT !.expired = TRUE]
    /\ UNCHANGED <<chatVars, today, probeCall, probeResults>>

Init ==
    /\ messages = << AIMessage(1, Greeting) >>
    /\ pc = "idle"
    /\ input = ""
    /\ chat_history = <<>>
    /\ scratch = <<>>
    /\ iterations = 0
    /\ turn = 0
    /\ runs = 0
    /\ outcome = "none"
    /\ tokenFile \in StoredFiles
    /\ cal = NoCal
    /\ today = 0
    /\ probeCall = NoCall
    /\ probeResults = <<>>

Next ==
    \/ ChatInput
    \/ OracleFinalAnswer
    \/ IterationCap
    \/ OracleRaises
    \/ UnknownTool
    \/ InvalidArgs
    \/ CallTool
    \/ CallCalendar
    \/ AdvanceDay
    \/ ExpireToken

Spec == Init /\ [][Next]_vars

(***************************************************************************)
(* The tools on their own: one tool call, invoked repeatedly while the     *)
(* date and the stored file change                                         *)
(***************************************************************************)
Destinations == {"Paris"}
BookingIds == {"FL123", "HOT101"}

ProbeCalls ==
    { Call(t, d, td, "") : t \in {"search_flights", "Google_Hotels"}, d \in Destinations,
                           td \in {None} \cup { Some(s) : s \in Texts } }
    \cup { Call(t, "", None, id) : t \in {"book_flight", "book_hotel"}, id \in BookingIds }

ProbeInvoke ==
    /\ Len(probeResults) < MaxProbes
    /\ probeCall \in ProbeCalls
    /\ probeResults' = Append(probeResults,
                              [env   |-> Env(today, tokenFile),
                               value |-> Apply(Env(today, tokenFile), probeCall)])
    /\ UNCHANGED <<chatVars, tokenFile, today, probeCall>>

ToolInit ==
    /\ messages = << AIMessage(1, Greeting) >>
    /\ pc = "idle"
    /\ input = ""
    /\ chat_history = <<>>
    /\ scratch = <<>>
    /\ iterations = 0
    /\ turn = 0
    /\ runs = 0
    /\ outcome = "none"
    /\ tokenFile \in StoredFiles
    /\ cal = NoCal
    /\ today = 0
    /\ probeCall \in ProbeCalls
    /\ probeResults = <<>>

ToolNext ==
    \/ ProbeInvoke
    \/ AdvanceDay
    \/ ExpireToken

ToolSpec == ToolInit /\ [][ToolNext]_vars

(***************************************************************************)
(* Properties                                                              *)
(***************************************************************************)
Last(seq) == seq[Len(seq)]

\* C1: every invocation of create_calendar_event ends by returning a string
\* to the loop, whichever of its steps fails; none raises out of the tool.
C1_CalendarNeverRaises == cal.outcome # "raised"

\* C2: whenever the handler is not running a turn, the transcript ends with an
\* assistant message: every user message got its final assistant text.
C2_TurnEndsWithAssistantText == pc = "idle" => Last(messages).role = "assistant"

\* C3: an invocation that finds a stored, unexpired credential calls neither
\* refresh nor the consent flow; one that finds a stored, expired credential
\* with a refresh token calls refresh exactly once, never the consent flow,
\* and has written the refreshed credential to token.json before it calls
\* insert.
C3_CredentialHandling ==
    /\ (cal.outcome # "none" /\ cal.stored.state = "ok" /\ ~cal.stored.expired)
          => (Count(cal.trace, "refresh") = 0 /\ Count(cal.trace, "consent") = 0)
    /\ (cal.outcome # "none" /\ cal.stored.state = "ok" /\ cal.stored.expired
                             /\ cal.stored.refresh_token)
          => /\ Count(cal.trace, "refresh") = 1
             /\ Count(cal.trace, "consent") = 0
             /\ IndexOf(cal.trace, "insert") > 0
                  => /\ IndexOf(cal.trace, "write") > 0
                     /\ IndexOf(cal.trace, "refresh") < IndexOf(cal.trace, "write")
                     /\ IndexOf(cal.trace, "write") < IndexOf(cal.trace, "insert")
                     /\ cal.written = File("ok", FALSE, TRUE, TRUE)
                     /\ cal.file = cal.written

C3_Witness ==
    /\ cal.stored.state = "ok" /\ cal.stored.expired /\ cal.stored.refresh_token
    /\ cal.outcome = "returned_id"
    /\ turn = 2

\* C4: the step that starts a turn passes as history exactly the transcript
\* as it was before the new user message was appended and passes that
\* message's text as the input; the new message object is not in the history.
C4_HistoryExcludesCurrent ==
    [][ turn' # turn =>
          /\ chat_history' = messages
          /\ Len(messages') = Len(messages) + 1
          /\ Last(messages').role = "user"
          /\ input' = Last(messages').content
          /\ \A i \in 1..Len(chat_history') : chat_history'[i].id # Last(messages').id ]_vars

C4_Witness ==
    /\ pc = "running"
    /\ turn = 2
    /\ Len(chat_history) = 3
    /\ chat_history[2].content = input

AllowedContent(m) ==
    \/ m.role = "user" /\ m.content \in UserTexts
    \/ m.role = "assistant" /\ m.content \in ({Greeting, StoppedMsg} \cup AnswerTexts)

\* C5: the transcript, and so the history of a later turn, holds only user
\* texts and final answers; the scratchpad holds steps of the running turn
\* only and is empty between turns; the history of a running turn holds
\* every message of the earlier turns.
C5_ScratchIsTurnScoped ==
    /\ \A i \in 1..Len(messages) : AllowedContent(messages[i])
    /\ \A i \in 1..Len(chat_history) : AllowedContent(chat_history[i])
    /\ \A i \in 1..Len(scratch) : scratch[i].turn = turn
    /\ pc = "idle" => scratch = <<>>
    /\ pc = "running" =>
          \A i \in 1..(Len(messages) - 1) :
              \E j \in 1..Len(chat_history) : chat_history[j] = messages[i]

C5_Witness ==
    /\ pc = "running"
    /\ turn = 2
    /\ scratch = <<>>
    /\ Len(chat_history) = 3
    /\ chat_history[3].content \in AnswerTexts
    /\ cal.outcome = "returned_id"

WellFormed(str) ==
    /\ Len(split(str)) = 2
    /\ fromisoformat(split(str)[1]).ok
    /\ fromisoformat(split(str)[2]).ok

Malformed(td) == td.some /\ ~WellFormed(td.str)

\* C6: for a malformed travel_dates text both searches return exactly two
\* offers, and the flight offers depart on the default date, 28 days after
\* the current date.
C6_MalformedDatesUseDefault ==
    (probeCall.tool \in {"search_flights", "Google_Hotels"} /\ Malformed(probeCall.travel_dates))
        => \A i \in 1..Len(probeResults) :
              /\ Len(probeResults[i].value) = 2
              /\ probeCall.tool = "search_flights" =>
                    \A j \in 1..2 :
                        probeResults[i].value[j].departure_time.date
                            = Tok("date", probeResults[i].env.today + DefaultDays)

\* C7: a run of the loop ends with the oracle's final answer or, at the
\* iteration cap, with the degraded answer, and never exceeds the cap.
C7_LoopEndsWithAnswer ==
    /\ iterations <= MaxIterations
    /\ outcome \in {"none", "running", "final", "stopped"}

\* C8: a loop step in which the oracle asks for a tool that is not registered,
\* or passes arguments the tool's schema rejects, invokes no tool, appends an
\* error result to the scratchpad and leaves the loop running.
C8_InvalidRequestIsRecoverable ==
    [][ ( \/ /\ Len(scratch') = Len(scratch) + 1
             /\ Last(scratch').request.tool \notin tools
          \/ /\ pc = "running"
             /\ outcome' = "validation_raised" )
        => /\ pc' = "running"
           /\ Len(scratch') = Len(scratch) + 1
           /\ Last(scratch').kind = "error"
           /\ cal' = cal ]_vars

HasParsableStart(str) ==
    /\ Len(str) >= 2
    /\ str[1].k \in {"date", "datetime"}
    /\ str[2].k = "sep"
    /\ \A i \in 3..Len(str) : str[i].k # "sep"

UsesDefault(call) ==
    /\ call.tool = "search_flights"
    /\ ~(call.travel_dates.some /\ HasParsableStart(call.travel_dates.str))

BookingResult(call) ==
    call.tool \in {"book_flight", "book_hotel"}
        => \A i \in 1..Len(probeResults) :
              probeResults[i].value
                  = [status |-> "success", confirmation_id |-> "CONF-" \o call.id \o "-BKD"]

\* C9 as stated: two invocations of a tool other than create_calendar_event
\* with equal arguments return equal results in every environment state, and
\* the booking tools return 'success' with 'CONF-<id>-BKD'.
C9_PureInEveryEnvironment ==
    /\ \A i, j \in 1..Len(probeResults) : probeResults[i].value = probeResults[j].value
    /\ BookingResult(probeCall)

\* C9 as amended: equal arguments give equal results whatever the stored file
\* holds, and whatever the date unless the call is search_flights with
\* travel_dates absent, empty or without a parsable start part, which gives
\* equal results on equal dates; the booking tools return 'success' with
\* 'CONF-<id>-BKD'.
C9_PureGivenDate ==
    /\ \A i, j \in 1..Len(probeResults) :
          (probeResults[i].env.today = probeResults[j].env.today \/ ~UsesDefault(probeCall))
              => probeResults[i].value = probeResults[j].value
    /\ BookingResult(probeCall)

C9_Witness ==
    /\ probeCall.tool = "search_flights"
    /\ ~UsesDefault(probeCall)
    /\ Len(probeResults) = 2
    /\ probeResults[1].env.today # probeResults[2].env.today
    /\ probeResults[1].env.file # probeResults[2].env.file

\* C10: the transcript starts with the greeting and, between turns, holds
\* 1 + 2n messages after n turns, alternating assistant and user, with one
\* loop run per user message.
C10_TranscriptAlternates ==
    /\ messages[1] = AIMessage(1, Greeting)
    /\ pc = "idle" =>
          /\ Len(messages) = 1 + 2 * turn
          /\ \A i \in 1..Len(messages) :
                messages[i].role = (IF i % 2 = 1 THEN "assistant" ELSE "user")
    /\ runs = Cardinality({ i \in 1..Len(messages) : messages[i].role = "user" })

====
